---- MODULE Spec2Model ----
(***************************************************************************)
(* Model of the deployment scheduler of Backend-Engineering-Assignment:    *)
(* the Celery task core.tasks.schedule_deployment, the Deployment and      *)
(* Cluster tables it reads and saves, and the REST endpoints that create   *)
(* and delete deployments.  One schedule_deployment attempt is split at    *)
(* its database exchanges (get, lazy cluster load, save), because Celery   *)
(* workers run attempts for different deployments in parallel and nothing  *)
(* in the task locks the rows it read.                                     *)
(***************************************************************************)
EXTENDS Integers, Sequences, FiniteSets, TLC

\* ------------------------------------------------------------------ bounds
\* Number of deployments the creation endpoint may create in one behaviour.
NumDeployments == 2
\* Number of extra deliveries of the task message in SpecReinvoke.
NumReinvoke == 1

\* The number of users of the API.
NumUsers == 3
\* The number of deployments that may be given dependencies.
MaxDependent == 1

\* ------------------------------------------------------- program constants
\* @shared_task(bind=True, max_retries=3, default_retry_delay=60)
max_retries == 3

\* Deployment.Status
PENDING == "pending"
RUNNING == "running"
FAILED == "failed"
COMPLETED == "completed"
Status == {PENDING, RUNNING, FAILED, COMPLETED}
\* The status values the creation requests of the model carry: the field's
\* default and one other choice (the scheduler never reads the stored status).
PostedStatus == {PENDING, RUNNING}

\* ------------------------------------------------------------- identities
ClusterIds == {"A", "B"}
DepIds == 1..NumDeployments
\* A Celery task id: one per call of schedule_deployment.delay; a retry keeps
\* the id of the attempt that asked for it.
TaskIds == 1..(NumDeployments + NumReinvoke)

\* Cluster rows the model starts from: limits and available counters
\* (cpu, ram, gpu), each with 0 <= available <= limit.
Pool(cl, rl, gl, ca, ra, ga) ==
    [cpu_limit |-> cl, ram_limit |-> rl, gpu_limit |-> gl,
     cpu_available |-> ca, ram_available |-> ra, gpu_available |-> ga]

Pools == {Pool(10, 32, 2, 10, 32, 2), Pool(10, 32, 2, 4, 6, 2)}

\* Required amounts (cpu, ram, gpu) a creation request may carry.
Demands == {<<2, 4, 1>>, <<2, 4, 2>>, <<20, 4, 1>>}

\* A Deployment row; NoDeployment stands for "no row with this id".
DeploymentRow(st, c, dem) ==
    [status |-> st, cluster |-> c, priority |-> 0,
     cpu_required |-> dem[1], ram_required |-> dem[2], gpu_required |-> dem[3]]

NoDeployment == [status |-> "", cluster |-> "", priority |-> 0, cpu_required |-> 0,
                 ram_required |-> 0, gpu_required |-> 0]

\* The in-memory cluster object of an attempt that has not loaded one.
NoCluster == Pool(0, 0, 0, 0, 0, 0)

\* ---------------------------------------------------------------- outcomes
\* The strings schedule_deployment returns (Celery stores them as the result).
OutNone == ""
OutRunning == "Deployment is now running."
OutNotFound == "Deployment not found."
\* "Error scheduling deployment {id}: {e}"; e is the exception of the read or
\* of the save that raised.
OutErrorRead == "Error scheduling deployment: read failed"
OutErrorSave == "Error scheduling deployment: save failed"
OutError == {OutErrorRead, OutErrorSave}
\* str(e) of the Retry that self.retry raises after it has sent the retry.
OutRetry == "Retry in 60s: Retry('Insufficient resources, retrying...')"
\* str(e) of the exc handed to self.retry, raised as is once retries are used up.
OutInsufficient == "Insufficient resources, retrying..."

\* The status codes the views answer with.
HTTP_200_OK == 200
HTTP_201_CREATED == 201
HTTP_400_BAD_REQUEST == 400
HTTP_500_INTERNAL_SERVER_ERROR == 500

\* The limits a client may PATCH a cluster to: <<cpu, ram, gpu>>.
LimitUpdates == {<<20, 64, 4>>}

\* The available counters a client may PATCH a cluster to: <<cpu, ram, gpu>>.
AvailableUpdates == {<<10, 32, 2>>}

\* The priorities a creation request may carry, and the statuses of the rows
\* that take part in dependencies.
Priorities == {0, 5}
DependencyStatus == {PENDING, COMPLETED}
PriorityDemands == {<<2, 4, 2>>}

\* Required amounts with a negative cpu_required.
NegativeDemands == {<<-2, 4, 1>>}

\* A status outside the model's choices, as a client may post it.
InvalidStatus == {"invalid_status"}

\* No request was answered yet.
NoResponse == [request |-> "none", code |-> 0]

\* The users that may call the join endpoint, and the codes they may post
\* (the organization's own, another one, and a request without the field).
Users == 1..NumUsers
InviteCode == "ABC123"
PostedCodes == {InviteCode, "INVALIDCODE", "None"}

NoJoin == [user |-> 0, invite_code |-> "None", code |-> 0]

VARIABLES
    deployments,   \* the Deployment table: DepIds -> row or NoDeployment
    clusters,      \* the Cluster table: ClusterIds -> row
    nextId,        \* the next primary key the Deployment table hands out
    tasks,         \* TaskIds -> the state of that Celery task
    admitted,      \* history: the admissions whose cluster.save() is persisted
    statusSaved,   \* history: the tasks whose status = running save is persisted
    clusters0,     \* history: the Cluster table as it was initially
    response,      \* the last answer of POST /deployments/: what was posted, its code
    organization,  \* the Organization row: its invite_code and its users
    joinResponse,  \* the last answer of POST /organizations/{id}/join/
    dependencies   \* the Deployment.dependencies relation: DepIds -> set of ids

vars == <<deployments, clusters, nextId, tasks, admitted, statusSaved, clusters0,
          response, organization, joinResponse, dependencies>>

\* A task that was never sent.
NoTask == [pc |-> "none", dep |-> 0, retries |-> 0, deployment |-> NoDeployment,
           cluster |-> NoCluster, outcome |-> OutNone, evals |-> 0]

Init ==
    /\ deployments = [d \in DepIds |-> NoDeployment]
    /\ clusters \in {[c \in ClusterIds |-> p] : p \in Pools}
    /\ nextId = 1
    /\ tasks = [t \in TaskIds |-> NoTask]
    /\ admitted = {}
    /\ statusSaved = {}
    /\ clusters0 = clusters
    /\ response = NoResponse
    /\ organization = [invite_code |-> InviteCode, users |-> {}]
    /\ joinResponse = NoJoin
    /\ dependencies = [d \in DepIds |-> {}]

\* ------------------------------------------------------------ pure helpers
\* A variant of the check that forgets the gpu comparison.
Sufficient_NoGpu(c, d) ==
    /\ c.cpu_available >= d.cpu_required
    /\ c.ram_available >= d.ram_required

\* The availability check of schedule_deployment: all three dimensions at once.
Sufficient(c, d) ==
    /\ c.cpu_available >= d.cpu_required
    /\ c.ram_available >= d.ram_required
    /\ c.gpu_available >= d.gpu_required

\* A variant that forgets to take the ram.
Allocate_NoRam(c, d) ==
    [c EXCEPT !.cpu_available = c.cpu_available - d.cpu_required,
              !.gpu_available = c.gpu_available - d.gpu_required]

\* The in-memory cluster after the three "-=" statements.
Allocate(c, d) ==
    [c EXCEPT !.cpu_available = c.cpu_available - d.cpu_required,
              !.ram_available = c.ram_available - d.ram_required,
              !.gpu_available = c.gpu_available - d.gpu_required]

\* The attempt's objects after the assignments of the admitted branch.
Admit(tk) ==
    [tk EXCEPT !.deployment = [tk.deployment EXCEPT !.status = RUNNING],
               !.cluster = Allocate(tk.cluster, tk.deployment)]

\* A variant that leaves the status as it was read.
Postpone_KeepStatus(tk) == tk

\* The attempt's objects after the assignment of the else branch.
Postpone(tk) ==
    [tk EXCEPT !.deployment = [tk.deployment EXCEPT !.status = PENDING]]

\* Model.save() of a deployment object: every field of the row is written
\* from the object (an UPDATE, or an INSERT when the row is gone).
SaveDeployment(tk) ==
    [deployments EXCEPT ![tk.dep] = tk.deployment]

\* A variant whose UPDATE has no WHERE on the primary key.
SaveCluster_All(tk) ==
    [k \in ClusterIds |-> tk.cluster]

\* Model.save() of a cluster object: every field of the row.
SaveCluster(tk) ==
    [clusters EXCEPT ![tk.deployment.cluster] = tk.cluster]

\* A variant without the transaction: what was saved stays saved.
RolledBack_Not(before, partial) == partial

\* What is persisted when the block under transaction.atomic() is left by an
\* exception: the state before the block, whatever the block had written.
RolledBack(before, partial) == before

\* A variant that allows one retry too many.
CanRetry_OneMore(retries) == retries <= max_retries

\* Task.retry, seen from the attempt: with retries left it sends the task
\* again (same id, retries + 1) and raises Retry; with none left it raises the
\* exc it was given.  Either way schedule_deployment's "except Retry" returns
\* str(e), so the attempt itself ends normally.
CanRetry(retries) == retries + 1 <= max_retries

\* The task after an attempt that ended without asking for a retry.
Finished(tk, out) ==
    [tk EXCEPT !.pc = "done", !.outcome = out,
               !.deployment = NoDeployment, !.cluster = NoCluster]

\* A variant that treats a missing row like insufficient resources.
NotFound_Retries(tk) ==
    [tk EXCEPT !.pc = "queued", !.outcome = OutRetry, !.retries = tk.retries + 1]

\* except Deployment.DoesNotExist: return the message; nothing else happens.
NotFound(tk) == Finished(tk, OutNotFound)

\* A variant of the admitted branch's end that sends the task again.
NowRunning_Retries(tk) ==
    [tk EXCEPT !.pc = "queued", !.outcome = OutRunning, !.retries = tk.retries + 1,
               !.deployment = NoDeployment, !.cluster = NoCluster]

\* return f"Deployment {deployment.name} is now running.": the admitted
\* branch ends the task; self.retry is only in the else branch.
NowRunning(tk) == Finished(tk, OutRunning)

\* "except Exception as e": the error string is returned, so the attempt
\* ends there and is not sent again.
Errored_Retries(tk, out) ==
    [tk EXCEPT !.pc = "queued", !.outcome = out, !.retries = tk.retries + 1,
               !.deployment = NoDeployment, !.cluster = NoCluster]

Errored(tk, out) == Finished(tk, out)

\* A variant of self.retry whose message does not count the retry.
Retry_Uncounted(tk) ==
    [tk EXCEPT !.pc = "queued", !.outcome = OutRetry,
               !.deployment = NoDeployment, !.cluster = NoCluster]

\* self.retry(exc=Retry(...)) and the "except Retry" that returns str(e).
Retry(tk) ==
    IF CanRetry(tk.retries)
    THEN [tk EXCEPT !.pc = "queued", !.outcome = OutRetry,
                    !.retries = tk.retries + 1,
                    !.deployment = NoDeployment, !.cluster = NoCluster]
    ELSE Finished(tk, OutInsufficient)

\* Deployment.are_dependencies_completed of the row with id d:
\* all(dep.status == 'COMPLETED' for dep in self.dependencies.all()).
are_dependencies_completed(d) ==
    \A e \in dependencies[d] : deployments[e].status = "COMPLETED"

\* ---------------------------------------------------------------- actions
\* A variant of create that sends the task twice.
Create_SendsTwice(st, c, dem) ==
    /\ nextId <= NumDeployments
    /\ deployments' = [deployments EXCEPT ![nextId] = DeploymentRow(st, c, dem)]
    /\ tasks' = [tasks EXCEPT ![nextId] = [NoTask EXCEPT !.pc = "queued", !.dep = nextId],
                              ![NumDeployments + 1] = [NoTask EXCEPT !.pc = "queued", !.dep = nextId]]
    /\ nextId' = nextId + 1
    /\ response' = [request |-> "valid", code |-> HTTP_201_CREATED]
    /\ UNCHANGED <<clusters, admitted, statusSaved, clusters0, organization, joinResponse, dependencies>>

\* DeploymentViewSet.create with valid data: the serializer saves the row as
\* posted (status is a writable field) and the task is sent with its id.
Create(st, c, dem) ==
    /\ nextId <= NumDeployments
    /\ deployments' = [deployments EXCEPT ![nextId] = DeploymentRow(st, c, dem)]
    /\ tasks' = [tasks EXCEPT ![nextId] = [NoTask EXCEPT !.pc = "queued", !.dep = nextId]]
    /\ nextId' = nextId + 1
    /\ response' = [request |-> "valid", code |-> HTTP_201_CREATED]
    /\ UNCHANGED <<clusters, admitted, statusSaved, clusters0, organization, joinResponse, dependencies>>

\* DeploymentViewSet's inherited destroy: the row is deleted, and with it its
\* rows of the dependencies relation; nothing tells the task queue.
Delete(d) ==
    /\ deployments[d] # NoDeployment
    /\ deployments' = [deployments EXCEPT ![d] = NoDeployment]
    /\ dependencies' = [e \in DepIds |-> IF e = d THEN {} ELSE dependencies[e] \ {d}]
    /\ UNCHANGED <<clusters, nextId, tasks, admitted, statusSaved, clusters0,
                   response, organization, joinResponse>>

\* A worker takes the task's message and runs Deployment.objects.get(id=...).
Fetch(t) ==
    /\ tasks[t].pc = "queued"
    /\ LET tk == [tasks[t] EXCEPT !.evals = tasks[t].evals + 1]
           row == deployments[tk.dep]
       IN  tasks' = [tasks EXCEPT ![t] =
                IF row = NoDeployment
                THEN NotFound(tk)
                ELSE [tk EXCEPT !.pc = "fetched", !.deployment = row]]
    /\ UNCHANGED <<deployments, clusters, nextId, admitted, statusSaved, clusters0,
                   response, organization, joinResponse, dependencies>>

\* A variant of the check that admits only when the dependencies are
\* completed as well.
Load_DependenciesFirst(t) ==
    /\ tasks[t].pc = "fetched"
    /\ LET d == tasks[t].deployment
           c == clusters[d.cluster]
       IN  tasks' = [tasks EXCEPT ![t] =
                [tasks[t] EXCEPT !.pc = IF Sufficient(c, d) /\ are_dependencies_completed(tasks[t].dep)
                                        THEN "commit" ELSE "defer",
                                 !.cluster = c]]
    /\ UNCHANGED <<deployments, clusters, nextId, admitted, statusSaved, clusters0,
                   response, organization, joinResponse, dependencies>>

\* A variant that decides on a copy of the cluster taken earlier (the table
\* as it first was) instead of loading the row.
Load_Stale(t) ==
    /\ tasks[t].pc = "fetched"
    /\ LET d == tasks[t].deployment
           c == clusters0[d.cluster]
       IN  tasks' = [tasks EXCEPT ![t] =
                [tasks[t] EXCEPT !.pc = IF Sufficient(c, d) THEN "commit" ELSE "defer",
                                 !.cluster = c]]
    /\ UNCHANGED <<deployments, clusters, nextId, admitted, statusSaved, clusters0,
                   response, organization, joinResponse, dependencies>>

\* deployment.cluster (a second query) and the availability check on the two
\* objects in memory.
Load(t) ==
    /\ tasks[t].pc = "fetched"
    /\ LET d == tasks[t].deployment
           c == clusters[d.cluster]
       IN  tasks' = [tasks EXCEPT ![t] =
                [tasks[t] EXCEPT !.pc = IF Sufficient(c, d) THEN "commit" ELSE "defer",
                                 !.cluster = c]]
    /\ UNCHANGED <<deployments, clusters, nextId, admitted, statusSaved, clusters0,
                   response, organization, joinResponse, dependencies>>

\* The admitted branch: the assignments, then
\* with transaction.atomic(): deployment.save(); cluster.save() -- committed.
Commit(t) ==
    /\ tasks[t].pc = "commit"
    /\ LET tk == Admit(tasks[t])
       IN  /\ deployments' = SaveDeployment(tk)
           /\ clusters' = SaveCluster(tk)
           /\ statusSaved' = statusSaved \cup {t}
           /\ admitted' = admitted \cup
                   {[task |-> t, dep |-> tk.dep, row |-> tk.deployment]}
           /\ tasks' = [tasks EXCEPT ![t] = NowRunning(tk)]
    /\ UNCHANGED <<nextId, clusters0, response, organization, joinResponse, dependencies>>

\* The same block left by an exception, before the first save or between the
\* two: "except Exception" returns the error string.
CommitFault(t) ==
    /\ tasks[t].pc = "commit"
    /\ \E first \in BOOLEAN :
         LET tk == Admit(tasks[t])
             before == [deployments |-> deployments, statusSaved |-> statusSaved]
             partial == IF first
                        THEN [deployments |-> SaveDeployment(tk),
                              statusSaved |-> statusSaved \cup {t}]
                        ELSE before
             kept == RolledBack(before, partial)
         IN  /\ deployments' = kept.deployments
             /\ statusSaved' = kept.statusSaved
    /\ tasks' = [tasks EXCEPT ![t] = Errored(tasks[t], OutErrorSave)]
    /\ UNCHANGED <<clusters, nextId, admitted, clusters0,
                   response, organization, joinResponse, dependencies>>

\* The else branch: the assignment, deployment.save(), then self.retry.
Defer(t) ==
    /\ tasks[t].pc = "defer"
    /\ LET tk == Postpone(tasks[t])
       IN  /\ deployments' = SaveDeployment(tk)
           /\ tasks' = [tasks EXCEPT ![t] = Retry(tk)]
    /\ UNCHANGED <<clusters, nextId, admitted, statusSaved, clusters0,
                   response, organization, joinResponse, dependencies>>

\* An exception from a single database exchange outside the transaction (the
\* get, the cluster load, the save of the else branch): nothing is written.
Fault(t) ==
    /\ tasks[t].pc \in {"queued", "fetched", "defer"}
    /\ tasks' = [tasks EXCEPT ![t] =
            Errored([tasks[t] EXCEPT !.evals =
                       IF tasks[t].pc = "queued" THEN tasks[t].evals + 1
                       ELSE tasks[t].evals],
                    IF tasks[t].pc = "defer" THEN OutErrorSave ELSE OutErrorRead)]
    /\ UNCHANGED <<deployments, clusters, nextId, admitted, statusSaved, clusters0,
                   response, organization, joinResponse, dependencies>>

\* schedule_deployment sent once more for a deployment id that already had
\* its task (a second delivery of the message, or a second .delay call).
Reinvoke(d) ==
    /\ d < nextId
    /\ \E t \in TaskIds :
         /\ t > NumDeployments
         /\ tasks[t].pc = "none"
         /\ \A u \in TaskIds : (u > NumDeployments /\ u < t) => tasks[u].pc # "none"
         /\ tasks' = [tasks EXCEPT ![t] = [NoTask EXCEPT !.pc = "queued", !.dep = d]]
    /\ UNCHANGED <<deployments, clusters, nextId, admitted, statusSaved, clusters0,
                   response, organization, joinResponse, dependencies>>

\* serializer.is_valid(raise_exception=True) on the posted status: the
\* ChoiceField of the model's status choices.
IsValid(st) == st \in Status

\* DeploymentViewSet.create with a status the serializer rejects: the
\* ValidationError is raised inside the try and "except Exception" answers.
CreateInvalid(st, c, dem) ==
    /\ ~IsValid(st)
    /\ response' = [request |-> "invalid", code |-> HTTP_500_INTERNAL_SERVER_ERROR]
    /\ UNCHANGED <<deployments, clusters, nextId, tasks, admitted, statusSaved, clusters0,
                   organization, joinResponse, dependencies>>

\* DeploymentViewSet.create with valid data when schedule_deployment.delay
\* raises (the broker cannot be reached): serializer.save() has already
\* inserted the row, no message was sent, "except Exception" answers.
CreateSendFault(st, c, dem) ==
    /\ IsValid(st)
    /\ nextId <= NumDeployments
    /\ deployments' = [deployments EXCEPT ![nextId] = DeploymentRow(st, c, dem)]
    /\ nextId' = nextId + 1
    /\ response' = [request |-> "valid", code |-> HTTP_500_INTERNAL_SERVER_ERROR]
    /\ UNCHANGED <<clusters, tasks, admitted, statusSaved, clusters0,
                   organization, joinResponse, dependencies>>

\* ClusterViewSet's inherited partial_update: PATCH of the three limits of
\* cluster k.
UpdateCluster(k, lim) ==
    /\ clusters' = [clusters EXCEPT ![k] =
            [@ EXCEPT !.cpu_limit = lim[1], !.ram_limit = lim[2], !.gpu_limit = lim[3]]]
    /\ clusters'[k] # clusters[k]
    /\ UNCHANGED <<deployments, nextId, tasks, admitted, statusSaved, clusters0,
                   response, organization, joinResponse, dependencies>>

\* DeploymentViewSet's inherited partial_update: PATCH of the three required
\* amounts of deployment d. No task is sent.
UpdateDeployment(d, dem) ==
    /\ deployments[d] # NoDeployment
    /\ deployments' = [deployments EXCEPT ![d] =
            [@ EXCEPT !.cpu_required = dem[1], !.ram_required = dem[2],
                      !.gpu_required = dem[3]]]
    /\ deployments'[d] # deployments[d]
    /\ UNCHANGED <<clusters, nextId, tasks, admitted, statusSaved, clusters0,
                   response, organization, joinResponse, dependencies>>

\* ClusterViewSet's inherited partial_update: PATCH of the three available
\* counters of cluster k, which ClusterSerializer lists as writable fields.
UpdateAvailable(k, av) ==
    /\ clusters' = [clusters EXCEPT ![k] =
            [@ EXCEPT !.cpu_available = av[1], !.ram_available = av[2],
                      !.gpu_available = av[3]]]
    /\ clusters'[k] # clusters[k]
    /\ UNCHANGED <<deployments, nextId, tasks, admitted, statusSaved, clusters0,
                   response, organization, joinResponse, dependencies>>

\* DeploymentViewSet.create with valid data that carries a priority.
CreatePriority(st, c, dem, pr) ==
    /\ nextId <= NumDeployments
    /\ deployments' = [deployments EXCEPT ![nextId] =
            [DeploymentRow(st, c, dem) EXCEPT !.priority = pr]]
    /\ tasks' = [tasks EXCEPT ![nextId] = [NoTask EXCEPT !.pc = "queued", !.dep = nextId]]
    /\ nextId' = nextId + 1
    /\ response' = [request |-> "valid", code |-> HTTP_201_CREATED]
    /\ UNCHANGED <<clusters, admitted, statusSaved, clusters0, organization, joinResponse,
                   dependencies>>

\* d.dependencies.add(e) through the ORM (the serializer does not expose the
\* relation). ManyToManyField('self') is symmetrical: e gets d as well.
AddDependency(d, e) ==
    /\ deployments[d] # NoDeployment
    /\ deployments[e] # NoDeployment
    /\ dependencies' = [x \in DepIds |->
            IF x = d THEN dependencies[x] \cup {e}
            ELSE IF x = e THEN dependencies[x] \cup {d}
            ELSE dependencies[x]]
    /\ dependencies' # dependencies
    /\ Cardinality({x \in DepIds : dependencies[x] # {}}) < MaxDependent
    /\ UNCHANGED <<deployments, clusters, nextId, tasks, admitted, statusSaved, clusters0,
                   response, organization, joinResponse>>

\* One step of some schedule_deployment attempt that meets no fault.
Schedule ==
    \E t \in TaskIds : Fetch(t) \/ Load(t) \/ Commit(t) \/ Defer(t)

\* The scheduler under concurrent submissions.
Next ==
    \/ \E st \in PostedStatus, c \in ClusterIds, dem \in Demands : Create(st, c, dem)
    \/ Schedule

Spec == Init /\ [][Next]_vars

\* ... with database exchanges that may raise.
NextFault == Next \/ \E t \in TaskIds : CommitFault(t) \/ Fault(t)

SpecFault == Init /\ [][NextFault]_vars

\* ... with deployments deleted through the API at any time.
NextDelete == Next \/ \E d \in DepIds : Delete(d)

SpecDelete == Init /\ [][NextDelete]_vars

\* ... with the task message delivered more than once.
NextReinvoke == Next \/ \E d \in DepIds : Reinvoke(d)

SpecReinvoke == Init /\ [][NextReinvoke]_vars

\* All of it together.
NextAll == NextFault \/ (\E d \in DepIds : Delete(d)) \/ (\E d \in DepIds : Reinvoke(d))

SpecAll == Init /\ [][NextAll]_vars


\* ... with the creation endpoint's other two ways out.
NextApi ==
    \/ Next
    \/ \E st \in InvalidStatus, c \in ClusterIds, dem \in Demands : CreateInvalid(st, c, dem)
    \/ \E st \in PostedStatus, c \in ClusterIds, dem \in Demands : CreateSendFault(st, c, dem)

SpecApi == Init /\ [][NextApi]_vars

\* ... with clusters and deployments updated through the API at any time.
NextUpdate ==
    \/ Next
    \/ \E k \in ClusterIds, lim \in LimitUpdates : UpdateCluster(k, lim)
    \/ \E d \in DepIds, dem \in Demands : UpdateDeployment(d, dem)

SpecUpdate == Init /\ [][NextUpdate]_vars

\* ... with the available counters of clusters rewritten through the API.
NextLedger ==
    \/ Next
    \/ \E k \in ClusterIds, av \in AvailableUpdates : UpdateAvailable(k, av)

SpecLedger == Init /\ [][NextLedger]_vars

\* The scheduler over deployments that carry priorities and dependencies.
NextPriority ==
    \/ \E st \in DependencyStatus, dem \in PriorityDemands, pr \in Priorities :
          CreatePriority(st, "A", dem, pr)
    \/ \E d, e \in DepIds : AddDependency(d, e)
    \/ Schedule

SpecPriority == Init /\ [][NextPriority]_vars

\* Faults and deletions, with workers that keep taking what is queued: a
\* task that can take a step of schedule_deployment eventually takes one.
Step(t) == Fetch(t) \/ Load(t) \/ Commit(t) \/ Defer(t)

\* Two deployments were created, with any posted data, and their tasks sent.
PostedRows ==
    {DeploymentRow(st, c, dem) : st \in PostedStatus, c \in ClusterIds, dem \in Demands}

InitTermination ==
    /\ clusters \in {[c \in ClusterIds |-> p] : p \in Pools}
    /\ deployments \in
          {[d \in DepIds |-> IF d = 1 THEN r1 ELSE IF d = 2 THEN r2 ELSE NoDeployment] :
              r1 \in PostedRows, r2 \in PostedRows}
    /\ nextId = 3
    /\ tasks = [t \in TaskIds |->
            IF t <= 2 THEN [NoTask EXCEPT !.pc = "queued", !.dep = t] ELSE NoTask]
    /\ admitted = {}
    /\ statusSaved = {}
    /\ clusters0 = clusters
    /\ response = [request |-> "valid", code |-> HTTP_201_CREATED]
    /\ organization = [invite_code |-> InviteCode, users |-> {}]
    /\ joinResponse = NoJoin
    /\ dependencies = [d \in DepIds |-> {}]

NextTermination ==
    \/ Schedule
    \/ \E t \in TaskIds : CommitFault(t) \/ Fault(t)
    \/ \E d \in DepIds : Delete(d)

SpecTermination ==
    /\ InitTermination
    /\ [][NextTermination]_vars
    /\ \A t \in TaskIds : WF_vars(Step(t))

\* ... with creation requests whose required amounts may be negative: the
\* three FloatFields carry no validator.
NextNegative ==
    \/ \E st \in PostedStatus, c \in ClusterIds, dem \in Demands \cup NegativeDemands :
          Create(st, c, dem)
    \/ Schedule

SpecNegative == Init /\ [][NextNegative]_vars

\* ------------------------------------------------- joining an organization
\* A variant of the two checks of join that forgets the invite code.
JoinAllowed_AnyCode(org, u, code) == u \notin org.users

\* The two checks of OrganizationViewSet.join, both passed.
JoinAllowed(org, u, code) ==
    /\ code = org.invite_code
    /\ u \notin org.users

\* OrganizationViewSet.join called by user u with the posted code.
Join(u, code) ==
    /\ organization' =
          IF JoinAllowed(organization, u, code)
          THEN [organization EXCEPT !.users = @ \cup {u}]
          ELSE organization
    /\ joinResponse' =
          [user |-> u, invite_code |-> code,
           code |-> IF JoinAllowed(organization, u, code)
                    THEN HTTP_200_OK ELSE HTTP_400_BAD_REQUEST]
    /\ UNCHANGED <<deployments, clusters, nextId, tasks, admitted, statusSaved, clusters0,
                   response, dependencies>>

NextJoin == \E u \in Users, code \in PostedCodes : Join(u, code)

SpecJoin == Init /\ [][NextJoin]_vars

\* ------------------------------------------------- two racing submissions
\* Two pending deployments of one cluster, each requiring gpu = 2 (and
\* cpu = 2, ram = 4) of a pool whose gpu_available is 2, both tasks already
\* sent.
InitContention ==
    /\ clusters \in {[c \in ClusterIds |-> p] : p \in Pools}
    /\ \E c \in ClusterIds :
         deployments = [d \in DepIds |->
            IF d <= 2 THEN DeploymentRow(PENDING, c, <<2, 4, 2>>) ELSE NoDeployment]
    /\ nextId = 3
    /\ tasks = [t \in TaskIds |->
            IF t <= 2 THEN [NoTask EXCEPT !.pc = "queued", !.dep = t] ELSE NoTask]
    /\ admitted = {}
    /\ statusSaved = {}
    /\ clusters0 = clusters
    /\ response = NoResponse
    /\ organization = [invite_code |-> InviteCode, users |-> {}]
    /\ joinResponse = NoJoin
    /\ dependencies = [d \in DepIds |-> {}]

SpecContention == InitContention /\ [][Schedule]_vars

\* ------------------------------------------------------ claim vocabulary
Dimensions == {"cpu", "ram", "gpu"}

Required(row, x) ==
    CASE x = "cpu" -> row.cpu_required
      [] x = "ram" -> row.ram_required
      [] x = "gpu" -> row.gpu_required

Available(c, x) ==
    CASE x = "cpu" -> c.cpu_available
      [] x = "ram" -> c.ram_available
      [] x = "gpu" -> c.gpu_available

Limit(c, x) ==
    CASE x = "cpu" -> c.cpu_limit
      [] x = "ram" -> c.ram_limit
      [] x = "gpu" -> c.gpu_limit

\* The workloads admitted against cluster c, each with the row it was
\* admitted with.
AdmittedWorkloads(c) ==
    {[dep |-> a.dep, row |-> a.row] : a \in {b \in admitted : b.row.cluster = c}}

AdmittedDeps == {a.dep : a \in admitted}

RECURSIVE SumRequired(_, _)
SumRequired(S, x) ==
    IF S = {} THEN 0
    ELSE LET a == CHOOSE b \in S : TRUE
         IN  Required(a.row, x) + SumRequired(S \ {a}, x)

\* C1: no over-admission -- for every cluster and every dimension, the
\* required amounts of all workloads admitted against the cluster sum to at
\* most the cluster's limit.
C1_NoOverAdmission ==
    \A c \in ClusterIds, x \in Dimensions :
        SumRequired(AdmittedWorkloads(c), x) <= Limit(clusters[c], x)

\* C2: atomicity under contention -- of two equal-demand workloads racing for
\* a pool that has enough for exactly one, never both are admitted (two
\* attempts that both passed the check both commit), and once both chains
\* have ended exactly one is running with gpu_available = 0 and the other is
\* pending.
C2_ExactlyOneAdmitted ==
    /\ Cardinality(AdmittedDeps) <= 1
    /\ (tasks[1].pc = "done" /\ tasks[2].pc = "done") =>
          /\ Cardinality(AdmittedDeps) = 1
          /\ clusters[deployments[1].cluster].gpu_available = 0
          /\ \E d \in {1, 2} :
                /\ deployments[d].status = RUNNING
                /\ deployments[3 - d].status = PENDING

\* C3: conservation -- every persisted cluster row has
\* 0 <= available <= limit in each of cpu, ram and gpu.
C3_Conservation ==
    \A c \in ClusterIds, x \in Dimensions :
        /\ 0 <= Available(clusters[c], x)
        /\ Available(clusters[c], x) <= Limit(clusters[c], x)

\* C3 witness: an admission has taken a counter down to 0 and a later
\* attempt against that cluster has been turned away.
C3_Witness ==
    \E c \in ClusterIds, t \in TaskIds :
        /\ clusters[c].gpu_available = 0
        /\ clusters0[c].gpu_available > 0
        /\ tasks[t].outcome = OutRetry
        /\ deployments[tasks[t].dep].cluster = c
        /\ deployments[tasks[t].dep].gpu_required > 0


\* A row whose demand exceeds its cluster's limit in some dimension: no
\* state of the pool can satisfy it.
Unsatisfiable(row) ==
    \E x \in Dimensions : Required(row, x) > Limit(clusters[row.cluster], x)

C4_State ==
    \A t \in TaskIds :
        /\ tasks[t].evals <= max_retries + 1
        /\ tasks[t].pc # "none" =>
             LET row == deployments[tasks[t].dep]
             IN  (row # NoDeployment /\ Unsatisfiable(row)) =>
                   /\ tasks[t].dep \notin AdmittedDeps
                   /\ tasks[t].outcome # OutRunning
                   /\ (tasks[t].pc = "done"
                       /\ tasks[t].outcome \notin OutError \cup {OutNotFound}) =>
                         /\ tasks[t].evals = max_retries + 1
                         /\ row.status = PENDING

C4_Step ==
    \A t \in TaskIds :
        /\ tasks[t].pc = "done" => tasks'[t] = tasks[t]
        /\ tasks'[t].evals \in {tasks[t].evals, tasks[t].evals + 1}

\* C4: retry bound -- a workload whose demand can never be satisfied is
\* evaluated exactly 1 + max_retries = 4 times (unless a fault or a deletion
\* ends the chain), is left pending, and once its chain has ended no attempt
\* for it is scheduled or run again; no task is ever evaluated a 5th time.
C4_RetryBound == [](C4_State) /\ [][C4_Step]_vars

\* C4 witness: the chain of an unsatisfiable workload has ended after its
\* 4th evaluation and the workload is pending.
C4_Witness ==
    \E t \in TaskIds :
        /\ tasks[t].pc = "done"
        /\ tasks[t].evals = 4
        /\ tasks[t].retries = 3
        /\ deployments[tasks[t].dep].cpu_required = 20
        /\ deployments[tasks[t].dep].status = PENDING

\* C5: idempotent re-evaluation -- an attempt that read status running for a
\* workload that already has a persisted admission leaves every cluster row
\* as it is when it ends.
C5_IdempotentReevaluation ==
    [][\A t \in TaskIds :
          (/\ tasks[t].pc = "commit"
           /\ tasks[t].deployment.status = RUNNING
           /\ tasks[t].dep \in AdmittedDeps
           /\ tasks'[t].pc = "done") => clusters' = clusters]_vars

\* C6: commit atomicity -- the persisted status = running saves and the
\* persisted cluster saves are those of the same attempts, also after a fault
\* inside the transaction; a workload with a persisted admission is running,
\* and an attempt that ended in an error has persisted neither save.
C6_CommitAtomicity ==
    /\ statusSaved = {a.task : a \in admitted}
    /\ \A a \in admitted : deployments[a.dep].status = RUNNING
    /\ \A t \in TaskIds :
          tasks[t].outcome \in OutError => t \notin statusSaved

\* C6 witness: an attempt's transaction was left by an exception while the
\* workload was pending; the workload is still pending and its cluster still
\* has everything the workload requires.
C6_Witness ==
    \E t \in TaskIds :
        /\ tasks[t].pc = "done"
        /\ tasks[t].outcome = OutErrorSave
        /\ tasks[t].retries = 0
        /\ deployments[tasks[t].dep].status = PENDING
        /\ clusters = clusters0
        /\ \A x \in Dimensions :
              Available(clusters[deployments[tasks[t].dep].cluster], x)
                 >= Required(deployments[tasks[t].dep], x)

\* C7: all-or-nothing admission -- the check sends an attempt to the admitted
\* branch iff the stored counters cover the demand in all three dimensions;
\* a commit on counters nobody changed since the attempt read them takes
\* exactly the demand off each and sets the status to running; and whenever
\* a step changes a cluster row, it is a commit that sets all three counters
\* to what the attempt read minus its demand.
C7_Step ==
    \A t \in TaskIds :
        LET d == tasks[t].deployment
            c == clusters[d.cluster]
        IN  /\ (tasks[t].pc = "fetched" /\ tasks'[t].pc # "fetched"
                /\ tasks'[t].outcome \notin OutError) =>
                  (tasks'[t].pc = "commit") =
                     (/\ c.cpu_available >= d.cpu_required
                      /\ c.ram_available >= d.ram_required
                      /\ c.gpu_available >= d.gpu_required)
            /\ (tasks[t].pc = "commit" /\ tasks'[t].pc = "done"
                /\ tasks'[t].outcome \notin OutError
                /\ tasks[t].cluster = c) =>
                  /\ clusters'[d.cluster] =
                        [c EXCEPT !.cpu_available = c.cpu_available - d.cpu_required,
                                  !.ram_available = c.ram_available - d.ram_required,
                                  !.gpu_available = c.gpu_available - d.gpu_required]
                  /\ deployments'[tasks[t].dep].status = RUNNING
                  /\ tasks'[t].outcome = OutRunning

C7_Whole ==
    \A k \in ClusterIds :
        clusters'[k] # clusters[k] =>
            \E t \in TaskIds :
                /\ tasks[t].pc = "commit" /\ tasks'[t].pc = "done"
                /\ tasks[t].deployment.cluster = k
                /\ \A x \in Dimensions :
                      Available(clusters'[k], x) =
                         Available(tasks[t].cluster, x) - Required(tasks[t].deployment, x)

C7_AllOrNothing == [][C7_Step /\ C7_Whole]_vars

\* C7 witness: a pool (10, 32, 2) has admitted a workload requiring
\* (2, 4, 1): it is running and the pool is (8, 28, 1).
C7_Witness ==
    \E t \in TaskIds, k \in ClusterIds :
        /\ tasks[t].outcome = OutRunning
        /\ deployments[tasks[t].dep] = DeploymentRow(RUNNING, k, <<2, 4, 1>>)
        /\ clusters0[k] = Pool(10, 32, 2, 10, 32, 2)
        /\ clusters[k] = Pool(10, 32, 2, 8, 28, 1)

\* C8: deferral -- the step that ends an attempt which found the resources
\* insufficient changes no cluster row, leaves the workload pending, and
\* sends the task again exactly when retries are left (one more retry
\* counted); the check itself writes nothing.
C8_Step ==
    \A t \in TaskIds :
        /\ (tasks[t].pc = "fetched" /\ tasks'[t].pc = "defer") =>
              /\ clusters' = clusters
              /\ deployments' = deployments
        /\ (tasks[t].pc = "defer" /\ tasks'[t].pc # "defer"
            /\ tasks'[t].outcome \notin OutError) =>
              /\ clusters' = clusters
              /\ deployments'[tasks[t].dep].status = PENDING
              /\ IF tasks[t].retries < max_retries
                 THEN /\ tasks'[t].pc = "queued"
                      /\ tasks'[t].retries = tasks[t].retries + 1
                 ELSE /\ tasks'[t].pc = "done"
                      /\ tasks'[t].retries = tasks[t].retries

C8_Deferral == [][C8_Step]_vars

\* C8 witness: a workload requiring cpu = 20 of a pool with cpu_available =
\* 10 was deferred once, is pending, its retry is queued and the pool is as
\* it was.
C8_Witness ==
    \E t \in TaskIds :
        /\ tasks[t].pc = "queued"
        /\ tasks[t].retries = 1
        /\ tasks[t].outcome = OutRetry
        /\ deployments[tasks[t].dep].cpu_required = 20
        /\ deployments[tasks[t].dep].status = PENDING
        /\ clusters = clusters0
        /\ clusters[deployments[tasks[t].dep].cluster].cpu_available = 10

\* C9: not found -- an attempt that starts when its row does not exist ends
\* with the not-found outcome, is not sent again and writes nothing; and a
\* deletion leaves every task as it is.
C9_Step ==
    /\ \A t \in TaskIds :
          (/\ tasks[t].pc = "queued"
           /\ deployments[tasks[t].dep] = NoDeployment
           /\ tasks'[t] # tasks[t]
           /\ tasks'[t].outcome \notin OutError) =>
              /\ tasks'[t].pc = "done"
              /\ tasks'[t].outcome = OutNotFound
              /\ tasks'[t].retries = tasks[t].retries
              /\ deployments' = deployments
              /\ clusters' = clusters
    /\ (\E d \in DepIds : deployments[d] # NoDeployment
                          /\ deployments'[d] = NoDeployment) => tasks' = tasks

C9_NotFound == [][C9_Step]_vars

\* C9 witness: a workload was deleted while its retry was waiting; the retry
\* ended with not found and the row is still gone.
C9_Witness ==
    \E t \in TaskIds :
        /\ tasks[t].pc = "done"
        /\ tasks[t].outcome = OutNotFound
        /\ tasks[t].retries >= 1
        /\ deployments[tasks[t].dep] = NoDeployment

\* The outcome the specification names for the attempt that uses up the
\* retries.
OutExhausted == "exhausted retries - not scheduled"

\* C10: every attempt ends with one of the outcomes admitted /
\* insufficient-pending / not-found / exhausted / error, and the attempt that
\* finds the resources insufficient with no retry left reports the exhausted
\* outcome while the workload stays pending.
C10_ExhaustedOutcome ==
    \A t \in TaskIds :
        /\ tasks[t].outcome \in
              {OutNone, OutRunning, OutRetry, OutNotFound, OutExhausted} \cup OutError
        /\ (tasks[t].pc = "done" /\ tasks[t].retries = max_retries
            /\ tasks[t].outcome \notin {OutRunning, OutNotFound} \cup OutError) =>
              /\ tasks[t].outcome = OutExhausted
              /\ deployments[tasks[t].dep].status = PENDING


\* ---------------------------------------------------------------- C11
\* The step of task t in which an exception was caught by "except Exception".
FaultStep(t) ==
    /\ tasks[t].outcome \notin OutError
    /\ tasks'[t].outcome \in OutError

C11_Step ==
    \A t \in TaskIds :
       FaultStep(t) =>
          /\ tasks'[t].pc = "done"
          /\ tasks'[t].retries = tasks[t].retries
          /\ clusters' = clusters
          /\ admitted' = admitted
          /\ \A u \in TaskIds \ {t} : tasks'[u] = tasks[u]
          /\ \A d \in DepIds \ {tasks[t].dep} : deployments'[d] = deployments[d]

\* C11: a fault while fetching or persisting, in the admitted or the deferral
\* branch, ends the attempt with an error outcome: the attempt is over and is
\* not sent again, no counter of any cluster has moved, and every other task
\* and every other deployment is as it was, so the other attempts go on; an
\* attempt that ended in error stays ended.
C11_FaultContainment ==
    /\ [](\A t \in TaskIds : tasks[t].outcome \in OutError => tasks[t].pc = "done")
    /\ [][C11_Step]_vars

\* One attempt ended in error on a save, and the attempt of another
\* deployment of the same cluster ran to its end and was admitted.
C11_Witness ==
    \E t, u \in TaskIds :
       /\ t # u
       /\ tasks[t].outcome = OutErrorSave
       /\ tasks[u].outcome = OutRunning
       /\ tasks[t].dep # tasks[u].dep
       /\ deployments[tasks[t].dep].cluster = deployments[tasks[u].dep].cluster


\* ---------------------------------------------------------------- C12
\* C12: every deployment row the creation endpoint has inserted has had its
\* first schedule_deployment task sent, and the request that inserted it was
\* answered 201: no state has a created row whose task was never sent.
C12_EnqueuedOnCreate ==
    /\ \A d \in DepIds : d < nextId => tasks[d].pc # "none"
    /\ response.request = "valid" => response.code = HTTP_201_CREATED

\* ---------------------------------------------------------------- C13
\* C13: a creation request that fails validation (a status outside the
\* model's choices) is answered 400.
C13_InvalidIs400 ==
    response.request = "invalid" => response.code = HTTP_400_BAD_REQUEST


\* ---------------------------------------------------------------- C14
C14_Step ==
    IF joinResponse' = joinResponse
    THEN organization' = organization
    ELSE LET r == joinResponse'
             matches == r.invite_code = organization.invite_code
             member == r.user \in organization.users
         IN  /\ r.code \in {HTTP_200_OK, HTTP_400_BAD_REQUEST}
             /\ r.code = HTTP_200_OK <=> (matches /\ ~member)
             /\ r.code = HTTP_200_OK =>
                   organization' = [organization EXCEPT !.users = @ \cup {r.user}]
             /\ r.code = HTTP_400_BAD_REQUEST => organization' = organization

\* C14: a join request is answered 200, and adds the caller to the
\* organization's users, exactly when the posted code equals the
\* organization's invite code and the caller is not yet a member; with a
\* wrong code, or for a member, it is answered 400 and the membership is left
\* as it was.
C14_Join == [][C14_Step]_vars

\* A member posted the right code once more and was refused.
C14_Witness ==
    /\ joinResponse.code = HTTP_400_BAD_REQUEST
    /\ joinResponse.invite_code = organization.invite_code
    /\ joinResponse.user \in organization.users
    /\ Cardinality(organization.users) >= 2


\* ---------------------------------------------------------------- C15
C15_Step ==
    \A t \in TaskIds :
       /\ (tasks[t].pc = "commit" /\ t \in {a.task : a \in admitted'}) =>
             /\ tasks'[t].pc = "done"
             /\ tasks'[t].retries = tasks[t].retries
       /\ t \in {a.task : a \in admitted} => tasks'[t] = tasks[t]

\* C15: the attempt that admits a deployment ends there: it sends no retry,
\* and from then on that task is never queued or run again.
C15_AdmissionTerminal ==
    /\ [](\A a \in admitted : tasks[a.task].pc = "done" /\ tasks[a.task].outcome = OutRunning)
    /\ [][C15_Step]_vars

\* Every task that was sent has ended, one of them by admitting its
\* deployment at its first evaluation, another after all its retries.
C15_Witness ==
    /\ \A t \in TaskIds : tasks[t].pc \in {"none", "done"}
    /\ \E a \in admitted :
          /\ tasks[a.task].evals = 1
          /\ deployments[a.dep].status = RUNNING
    /\ \E t \in TaskIds : tasks[t].outcome = OutInsufficient


\* ---------------------------------------------------------------- C16
\* The attempts for deployment d that are queued or running.
Outstanding(d) ==
    {t \in TaskIds : tasks[t].dep = d /\ tasks[t].pc \notin {"none", "done"}}

C16_Step ==
    \A t \in TaskIds :
       /\ tasks'[t].retries # tasks[t].retries =>
             /\ tasks[t].pc = "defer"
             /\ tasks'[t].pc = "queued"
             /\ tasks'[t].retries = tasks[t].retries + 1
       /\ tasks'[t].evals # tasks[t].evals =>
             /\ tasks[t].pc = "queued"
             /\ Outstanding(tasks[t].dep) = {t}

C17_StatusTransitions ==
    [][\A d \in DepIds :
          (/\ deployments[d] # NoDeployment
           /\ deployments'[d] # NoDeployment
           /\ deployments'[d].status # deployments[d].status)
          => /\ deployments[d].status = PENDING
             /\ deployments'[d].status = RUNNING]_vars

\* ---------------------------------------------------------------- C18
\* C18: whatever the creation request contained, the row has status pending
\* while its first attempt is in the queue.
C18_CreatedPending ==
    \A d \in DepIds :
       (/\ deployments[d] # NoDeployment
        /\ tasks[d].pc = "queued"
        /\ tasks[d].dep = d
        /\ tasks[d].evals = 0)
       => deployments[d].status = PENDING


\* ---------------------------------------------------------------- C19
C19_Step ==
    \A t \in TaskIds :
       (tasks[t].pc # "none" /\ tasks'[t] # tasks[t] /\ tasks'[t].outcome \notin OutError) =>
          LET k == tasks[t].deployment.cluster
          IN  /\ \A j \in ClusterIds \ {k} : clusters'[j] = clusters[j]
              /\ tasks[t].pc = "fetched" =>
                    /\ tasks'[t].cluster = clusters[k]
                    /\ (tasks'[t].pc = "commit") =
                          (\A x \in Dimensions :
                              Available(clusters[k], x) >= Required(tasks[t].deployment, x))
              /\ tasks[t].pc = "commit" =>
                    \A x \in Dimensions :
                       Available(clusters'[k], x) =
                          Available(tasks[t].cluster, x) - Required(tasks[t].deployment, x)

\* C19: an attempt for a deployment of cluster k (the cluster of the row it
\* fetched; none before the fetch) reads and writes the row of k only: every
\* other cluster's row is as it was after each of its steps,
\* what it decides is a function of k's counters and the deployment's
\* demand, and what it writes is what it read of k less that demand. A
\* cluster with no admission still has its initial row.
C19_ClusterIndependence ==
    /\ [](\A k \in ClusterIds : AdmittedWorkloads(k) = {} => clusters[k] = clusters0[k])
    /\ [][C19_Step]_vars

\* A deployment of one cluster was admitted and changed that cluster's
\* counters; a deployment of the other cluster met the initial counters
\* there and was put off.
C19_Witness ==
    \E a \in admitted, t \in TaskIds :
       LET k == a.row.cluster
           j == deployments[tasks[t].dep].cluster
       IN  /\ tasks[t].dep \in 1..(nextId - 1)
           /\ j # k
           /\ clusters[k] # clusters0[k]
           /\ clusters[j] = clusters0[j]
           /\ tasks[t].outcome = OutRetry
           /\ tasks[t].retries >= 1


\* ---------------------------------------------------------------- C20
\* C20: the steps of an attempt that save (the admitted branch and the
\* deferral) change nothing persisted but the deployment's status and its
\* cluster's three available counters: every cluster's limits and every
\* deployment's cluster and required amounts are after the step what they
\* were before it, also when an update through the API was committed
\* between the attempt's read and its save.
C20_Frame ==
    [][\A t \in TaskIds :
          (tasks[t].pc \in {"commit", "defer"} /\ tasks'[t] # tasks[t]) =>
             /\ \A k \in ClusterIds, x \in Dimensions :
                   Limit(clusters'[k], x) = Limit(clusters[k], x)
             /\ \A d \in DepIds :
                   deployments[d] # NoDeployment =>
                      /\ deployments'[d] # NoDeployment
                      /\ deployments'[d].cluster = deployments[d].cluster
                      /\ \A x \in Dimensions :
                            Required(deployments'[d], x) = Required(deployments[d], x)]_vars


\* ---------------------------------------------------------------- C21
\* C21: after the cluster is created its available counters change only by
\* the decrement of a successful admission, so none of them ever increases;
\* no other operation, the cluster update API included, rewrites them.
C21_LedgerOnly ==
    [][\A k \in ClusterIds :
          (\E x \in Dimensions : Available(clusters'[k], x) # Available(clusters[k], x))
          => /\ \A x \in Dimensions : Available(clusters'[k], x) <= Available(clusters[k], x)
             /\ \E t \in TaskIds :
                   /\ tasks[t].pc = "commit"
                   /\ tasks'[t].outcome = OutRunning
                   /\ tasks[t].deployment.cluster = k]_vars


\* ---------------------------------------------------------------- C22
\* What an attempt that has decided (pc commit or defer) decided on: the
\* required amounts it fetched and the counters it loaded.
DecidedOn(t) ==
    [required |-> [x \in Dimensions |-> Required(tasks[t].deployment, x)],
     available |-> [x \in Dimensions |-> Available(tasks[t].cluster, x)]]

C22_Step ==
    \A t \in TaskIds :
       LET d == tasks[t].deployment
           k == d.cluster
       IN  /\ (tasks[t].pc = "fetched" /\ tasks'[t].pc # "fetched") =>
                 (tasks'[t].pc = "commit") =
                    (\A x \in Dimensions : Available(clusters[k], x) >= Required(d, x))
           /\ (tasks[t].pc = "commit" /\ tasks'[t].pc = "done") =>
                 /\ deployments'[tasks[t].dep] = [d EXCEPT !.status = RUNNING]
                 /\ \A x \in Dimensions :
                       Available(clusters'[k], x) =
                          Available(tasks[t].cluster, x) - Required(d, x)
           /\ (tasks[t].pc = "defer" /\ tasks'[t].pc # "defer") =>
                 /\ deployments'[tasks[t].dep] = [d EXCEPT !.status = PENDING]
                 /\ clusters' = clusters
           /\ tasks'[t] # tasks[t] => dependencies' = dependencies

\* C22: the decision ignores priority and dependencies. Two attempts that
\* decided on the same required amounts and the same loaded counters took the
\* same branch, whatever the priorities of their deployments, their
\* dependencies and the statuses of those; and each step of an attempt is the
\* function of the counters and the required amounts alone that the code
\* computes, writing the priority back as read and leaving the dependencies.
C22_IgnoresPriorityAndDependencies ==
    /\ [](\A t, u \in TaskIds :
            (/\ tasks[t].pc \in {"commit", "defer"}
             /\ tasks[u].pc \in {"commit", "defer"}
             /\ DecidedOn(t) = DecidedOn(u))
            => tasks[t].pc = tasks[u].pc)
    /\ [][C22_Step]_vars

\* Two deployments were admitted on the same counters and the same required
\* amounts: one of priority 0 that depends on a deployment that is not
\* completed, one of priority 5 without dependencies.
C22_Witness ==
    \E a, b \in admitted :
       /\ a.dep # b.dep
       /\ a.row.priority < b.row.priority
       /\ tasks[a.task].cluster = tasks[b.task].cluster
       /\ dependencies[b.dep] = {}
       /\ \E e \in dependencies[a.dep] : deployments[e].status # COMPLETED

\* ---------------------------------------------------------------- C23
\* C23: are_dependencies_completed of a deployment is true exactly when the
\* stored status of every deployment it depends on is the completed status
\* (true when it depends on none).
C23_DependenciesCompleted ==
    \A d \in DepIds :
       deployments[d] # NoDeployment =>
          (are_dependencies_completed(d) <=>
             \A e \in dependencies[d] : deployments[e].status = COMPLETED)


\* ---------------------------------------------------------------- C24
\* How a chain of attempts may end.
Ended(t) ==
    /\ tasks[t].pc = "done"
    /\ tasks[t].outcome \in {OutRunning, OutNotFound, OutInsufficient} \cup OutError
    /\ tasks[t].outcome = OutInsufficient =>
          \/ deployments[tasks[t].dep] = NoDeployment
          \/ deployments[tasks[t].dep].status = PENDING

\* C24: with workers that keep taking queued attempts, every task that was
\* sent ends: admitted, not found, in error, or with its retries exhausted
\* and the deployment pending; it never evaluates more than four times.
C24_Termination ==
    /\ [](\A t \in TaskIds :
            /\ tasks[t].evals <= max_retries + 1
            /\ tasks[t].pc = "done" => Ended(t))
    /\ \A t \in TaskIds : (tasks[t].pc # "none") ~> Ended(t)

\* A chain that ended exhausted after four evaluations, its deployment
\* pending, beside a chain that ended not found.
C24_Witness ==
    \E t, u \in TaskIds :
       /\ Ended(t) /\ Ended(u)
       /\ tasks[t].outcome = OutInsufficient
       /\ tasks[t].evals = max_retries + 1
       /\ deployments[tasks[t].dep].status = PENDING
       /\ tasks[u].outcome = OutNotFound


\* ---------------------------------------------------------------- C25
C25_Step ==
    \A t \in TaskIds :
       /\ (tasks[t].pc = "queued" /\ tasks'[t].pc = "fetched") =>
             tasks'[t].deployment = deployments[tasks[t].dep]
       /\ (tasks[t].pc = "fetched" /\ tasks'[t].pc \in {"commit", "defer"}) =>
             LET k == tasks[t].deployment.cluster
             IN  /\ tasks'[t].cluster = clusters[k]
                 /\ (tasks'[t].pc = "commit") =
                       (\A x \in Dimensions :
                           Available(clusters[k], x) >= Required(tasks[t].deployment, x))
       /\ (tasks'[t].outcome = OutRunning /\ tasks[t].outcome # OutRunning) =>
             /\ tasks[t].pc = "commit"
             /\ \A x \in Dimensions :
                   Available(tasks[t].cluster, x) >= Required(tasks[t].deployment, x)

\* C25: every attempt, the first or a retry, reads the deployment row and the
\* cluster row as they are stored when it runs and decides on those: a queued
\* retry holds nothing an earlier attempt read, the fetch takes the stored
\* row, the load takes the stored counters, and the attempt admits exactly
\* when those counters cover the three required amounts.
C25_DecidesOnCurrentState ==
    /\ [](\A t \in TaskIds :
            tasks[t].pc = "queued" =>
               (tasks[t].deployment = NoDeployment /\ tasks[t].cluster = NoCluster))
    /\ [][C25_Step]_vars

\* A deployment that was put off at its first attempt, after another
\* admission on its cluster, was admitted at its second retry on counters
\* stored in between.
C25_Witness ==
    \E a, b \in admitted :
       /\ a.dep # b.dep
       /\ a.row.cluster = b.row.cluster
       /\ tasks[b.task].retries = 0
       /\ tasks[a.task].retries = 2
       /\ tasks[a.task].outcome = OutRunning
       /\ deployments[a.dep].status = RUNNING


\* ---------------------------------------------------------------- C26
\* C26: every deployment row an attempt has fetched has cpu_required,
\* ram_required and gpu_required >= 0, so that no admission raises an
\* available counter.
C26_NonNegativeDemands ==
    \A t \in TaskIds :
       tasks[t].pc \in {"fetched", "commit", "defer"} =>
          \A x \in Dimensions : Required(tasks[t].deployment, x) >= 0


\* ---------------------------------------------------------------- C27
\* C27: in every persisted state reached by admission attempts alone, for
\* each cluster and each of cpu, ram and gpu, the available counter is the
\* initial one less the required amounts of all deployments admitted against
\* the cluster: no decrement is lost and none is applied twice.
C27_AccountingIdentity ==
    \A c \in ClusterIds, x \in Dimensions :
        Available(clusters[c], x) =
           Available(clusters0[c], x) - SumRequired(AdmittedWorkloads(c), x)

====
